---------------------------- MODULE Spec2Model ----------------------------
(***************************************************************************)
(* RSVP collection service.  Two servers share the validator and the       *)
(* request shell and differ in the storage strategy:                       *)
(*   src/server.js         snapshot file  (data/rsvps.json, rewritten      *)
(*                         wholesale by every mutation)                    *)
(*   src/unnamed/part_000  record store   (sqlite3 run per statement)      *)
(* A deployment runs one of them; Init chooses which (strategy).           *)
(*                                                                         *)
(* Strings are sequences of one-character strings, so that trim, split     *)
(* and parseInt are computed rather than assumed.                          *)
(***************************************************************************)
EXTENDS Integers, Sequences, FiniteSets, Bags, TLC

(***************************************************************************)
(* Bounds of the model.                                                    *)
(***************************************************************************)
MaxReq == 2
MaxTime == 3
MaxFaults == 1

(***************************************************************************)
(* JSON values of a request body.  One record shape for every value:       *)
(* t is the JavaScript type, s the characters of a string, n the value of  *)
(* a number, a the items of an array.                                      *)
(***************************************************************************)
JUndef == [t |-> "undefined", s |-> <<>>, n |-> 0, a |-> <<>>]
JNull == [t |-> "null", s |-> <<>>, n |-> 0, a |-> <<>>]
JStr(chars) == [t |-> "string", s |-> chars, n |-> 0, a |-> <<>>]
JNum(k) == [t |-> "number", s |-> <<>>, n |-> k, a |-> <<>>]
JArr(items) == [t |-> "array", s |-> <<>>, n |-> 0, a |-> items]

Whitespace == {" "}
Digits == {"0", "1", "2", "3", "4", "5", "6", "7", "8", "9"}
DigitVal(c) ==
  CASE c = "0" -> 0 [] c = "1" -> 1 [] c = "2" -> 2 [] c = "3" -> 3
    [] c = "4" -> 4 [] c = "5" -> 5 [] c = "6" -> 6 [] c = "7" -> 7
    [] c = "8" -> 8 [] c = "9" -> 9
DigitChar(d) ==
  CASE d = 0 -> "0" [] d = 1 -> "1" [] d = 2 -> "2" [] d = 3 -> "3"
    [] d = 4 -> "4" [] d = 5 -> "5" [] d = 6 -> "6" [] d = 7 -> "7"
    [] d = 8 -> "8" [] d = 9 -> "9"

(* String.prototype.trim *)
RECURSIVE TrimLeft(_)
TrimLeft(s) ==
  IF s # <<>> /\ Head(s) \in Whitespace THEN TrimLeft(Tail(s)) ELSE s
RECURSIVE TrimRight(_)
TrimRight(s) ==
  IF s # <<>> /\ s[Len(s)] \in Whitespace
    THEN TrimRight(SubSeq(s, 1, Len(s) - 1))
    ELSE s
Trim(s) == TrimRight(TrimLeft(s))

(* String.prototype.split(','): the segments between the commas *)
RECURSIVE SplitFrom(_, _)
SplitFrom(s, cur) ==
  IF s = <<>> THEN <<cur>>
  ELSE IF Head(s) = "," THEN <<cur>> \o SplitFrom(Tail(s), <<>>)
  ELSE SplitFrom(Tail(s), Append(cur, Head(s)))
SplitComma(s) == SplitFrom(s, <<>>)

(* String(n) of an integer *)
RECURSIVE NatToStr(_)
NatToStr(k) ==
  IF k < 10 THEN <<DigitChar(k)>>
  ELSE Append(NatToStr(k \div 10), DigitChar(k % 10))
IntToStr(k) == IF k < 0 THEN <<"-">> \o NatToStr(0 - k) ELSE NatToStr(k)

(* String(value) as parseInt and the contributions mapping apply it *)
ToJsString(v) ==
  CASE v.t = "string" -> v.s
    [] v.t = "number" -> IntToStr(v.n)
    [] v.t = "null" -> <<"n", "u", "l", "l">>
    [] v.t = "undefined" -> <<"u", "n", "d", "e", "f", "i", "n", "e", "d">>
    [] OTHER -> <<>>

(* Number.parseInt(value, 10): NaN is [nan |-> TRUE] *)
NaN == [nan |-> TRUE, v |-> 0]
RECURSIVE DigitPrefix(_, _)
DigitPrefix(s, acc) ==
  IF s # <<>> /\ Head(s) \in Digits
    THEN DigitPrefix(Tail(s), 10 * acc + DigitVal(Head(s)))
    ELSE acc
ParseInt(v) ==
  LET str == TrimLeft(ToJsString(v))
      neg == str # <<>> /\ Head(str) = "-"
      body == IF str # <<>> /\ Head(str) \in {"-", "+"} THEN Tail(str) ELSE str
  IN IF body = <<>> \/ Head(body) \notin Digits THEN NaN
     ELSE [nan |-> FALSE,
           v |-> IF neg THEN 0 - DigitPrefix(body, 0) ELSE DigitPrefix(body, 0)]

(* Array.prototype.filter(Boolean) on strings: the non-empty ones *)
RECURSIVE FilterNonEmpty(_)
FilterNonEmpty(items) ==
  IF items = <<>> THEN <<>>
  ELSE IF Head(items) = <<>> THEN FilterNonEmpty(Tail(items))
  ELSE <<Head(items)>> \o FilterNonEmpty(Tail(items))

ItemToString(item) ==
  IF item.t = "string" THEN item.s
  ELSE IF item.t \in {"null", "undefined"} THEN <<>>
  ELSE ToJsString(item)

(* a normalizeContributions without its filter(Boolean) *)
normalizeContributionsKeepEmpty(value) ==
  IF value.t = "array"
    THEN [i \in 1..Len(value.a) |-> Trim(ItemToString(value.a[i]))]
  ELSE IF value.t = "string"
    THEN LET parts == SplitComma(value.s)
         IN [i \in 1..Len(parts) |-> Trim(parts[i])]
  ELSE <<>>

normalizeContributions(value) ==
  IF value.t = "array"
    THEN FilterNonEmpty([i \in 1..Len(value.a) |-> Trim(ItemToString(value.a[i]))])
  ELSE IF value.t = "string"
    THEN LET parts == SplitComma(value.s)
         IN FilterNonEmpty([i \in 1..Len(parts) |-> Trim(parts[i])])
  ELSE <<>>

NameRequired == "Guest name is required."
ContributionRequired == "At least one contribution is required."
NoError == ""

SanitizeError(msg) ==
  [error |-> msg, guestName |-> <<>>, guestCount |-> 0, notes |-> <<>>,
   contributions |-> <<>>]

(* a sanitizePayload that tests the contributions before the guest name *)
sanitizePayloadContributionsFirst(payload) ==
  LET guestName == IF payload.guestName.t = "string"
                     THEN Trim(payload.guestName.s) ELSE <<>>
      guestCountNumber == ParseInt(payload.guestCount)
      guestCount == IF ~guestCountNumber.nan /\ guestCountNumber.v > 0
                      THEN guestCountNumber.v ELSE 1
      notes == IF payload.notes.t = "string" THEN Trim(payload.notes.s) ELSE <<>>
      contributions == normalizeContributions(payload.contributions)
  IN IF contributions = <<>> THEN SanitizeError(ContributionRequired)
     ELSE IF guestName = <<>> THEN SanitizeError(NameRequired)
     ELSE [error |-> NoError, guestName |-> guestName, guestCount |-> guestCount,
           notes |-> notes, contributions |-> contributions]

sanitizePayload(payload) ==
  LET guestName == IF payload.guestName.t = "string"
                     THEN Trim(payload.guestName.s) ELSE <<>>
      guestCountNumber == ParseInt(payload.guestCount)
      guestCount == IF ~guestCountNumber.nan /\ guestCountNumber.v > 0
                      THEN guestCountNumber.v ELSE 1
      notes == IF payload.notes.t = "string" THEN Trim(payload.notes.s) ELSE <<>>
      contributions == normalizeContributions(payload.contributions)
  IN IF guestName = <<>> THEN SanitizeError(NameRequired)
     ELSE IF contributions = <<>> THEN SanitizeError(ContributionRequired)
     ELSE [error |-> NoError, guestName |-> guestName, guestCount |-> guestCount,
           notes |-> notes, contributions |-> contributions]


(***************************************************************************)
(* Records.  An id is the pair <<timestamp, random suffix>> of the string  *)
(* `${timestamp}-${suffix}`.  An optional field (updatedAt) is <<>> when   *)
(* absent and <<t>> when present.                                          *)
(***************************************************************************)
Rands == {"a", "b"}
UnknownId == <<0, "a">>
NoEntry ==
  [id |-> UnknownId, guestName |-> <<>>, guestCount |-> 0, notes |-> <<>>,
   contributions |-> <<>>, createdAt |-> 0, updatedAt |-> <<>>]

(* a new entry that carries updatedAt from its creation *)
NewEntryStamped(sanitized, timestamp, suffix) ==
  [id |-> <<timestamp, suffix>>, guestName |-> sanitized.guestName,
   guestCount |-> sanitized.guestCount, notes |-> sanitized.notes,
   contributions |-> sanitized.contributions, createdAt |-> timestamp,
   updatedAt |-> <<timestamp>>]

(* { ...sanitized, id, createdAt } *)
NewEntry(sanitized, timestamp, suffix) ==
  [id |-> <<timestamp, suffix>>, guestName |-> sanitized.guestName,
   guestCount |-> sanitized.guestCount, notes |-> sanitized.notes,
   contributions |-> sanitized.contributions, createdAt |-> timestamp,
   updatedAt |-> <<>>]

(* { ...entries[index], ...sanitized, updatedAt: Date.now() } *)
UpdatedEntry(existing, sanitized, timestamp) ==
  [id |-> existing.id, guestName |-> sanitized.guestName,
   guestCount |-> sanitized.guestCount, notes |-> sanitized.notes,
   contributions |-> sanitized.contributions, createdAt |-> existing.createdAt,
   updatedAt |-> <<timestamp>>]

IdsOf(entries) == {entries[i].id : i \in 1..Len(entries)}

(* a findIndex whose -1 is taken for an index: entries.at(-1) *)
FindIndexOrLast(entries, id) ==
  IF \E i \in 1..Len(entries) : entries[i].id = id
    THEN CHOOSE i \in 1..Len(entries) :
           entries[i].id = id /\ \A j \in 1..(i - 1) : entries[j].id # id
    ELSE Len(entries)

(* Array.prototype.findIndex(entry => entry.id === id); 0 stands for -1 *)
FindIndex(entries, id) ==
  IF \E i \in 1..Len(entries) : entries[i].id = id
    THEN CHOOSE i \in 1..Len(entries) :
           entries[i].id = id /\ \A j \in 1..(i - 1) : entries[j].id # id
    ELSE 0

(* Array.prototype.filter(entry => entry.id !== id) *)
RECURSIVE FilterOut(_, _)
FilterOut(entries, id) ==
  IF entries = <<>> THEN <<>>
  ELSE IF Head(entries).id = id THEN FilterOut(Tail(entries), id)
  ELSE <<Head(entries)>> \o FilterOut(Tail(entries), id)

(* entries.unshift(newEntry) *)
PushEntryFront(entries, entry) == <<entry>> \o entries
(* entries.push(newEntry) *)
PushEntry(entries, entry) == Append(entries, entry)

(* entries[index] = updatedEntry *)
ReplaceAt(entries, index, entry) == [entries EXCEPT ![index] = entry]

(***************************************************************************)
(* Request bodies.  kind is what JSON.parse makes of the body text.        *)
(***************************************************************************)
EmptyObject ==
  [guestName |-> JUndef, guestCount |-> JUndef, notes |-> JUndef,
   contributions |-> JUndef, id |-> JUndef, createdAt |-> JUndef]
Body(kind, obj) == [kind |-> kind, obj |-> obj]
NoBody == Body("empty", EmptyObject)

(* bodyText ? JSON.parse(bodyText) : {} followed by the property reads of  *)
(* sanitizePayload: threw is the exception either of them raises           *)
ParseBody(body) ==
  [threw |-> body.kind \in {"malformed", "null"},
   payload |-> IF body.kind = "object" THEN body.obj ELSE EmptyObject]

BodyAna ==
  Body("object",
       [EmptyObject EXCEPT !.guestName = JStr(<<" ", "a", " ">>),
                           !.guestCount = JStr(<<"2", "x">>),
                           !.notes = JStr(<<"b", " ">>),
                           !.contributions = JStr(<<"a", ",", " ", ",", "b">>)])
BodyBob ==
  Body("object",
       [EmptyObject EXCEPT !.guestName = JStr(<<"b", "'">>),
                           !.guestCount = JNum(0),
                           !.notes = JNull,
                           !.contributions =
                              JArr(<<JStr(<<"a", "\"", "\\">>), JNull, JNum(12)>>),
                           !.id = JStr(<<"z">>),
                           !.createdAt = JNum(0)])
BodyNoName ==
  Body("object",
       [EmptyObject EXCEPT !.guestName = JStr(<<" ", " ">>),
                           !.contributions = JArr(<<JStr(<<"a">>)>>)])
BodyNoContribution ==
  Body("object",
       [EmptyObject EXCEPT !.guestName = JStr(<<"a">>),
                           !.contributions = JArr(<<JStr(<<" ">>), JNull>>)])
BodyNeither ==
  Body("object",
       [EmptyObject EXCEPT !.guestName = JNum(3),
                           !.contributions = JStr(<<",", " ">>)])
(* the bodies the servers are sent *)
Bodies ==
  {BodyBob, BodyNoName, BodyNoContribution, BodyNeither,
   Body("malformed", EmptyObject), Body("null", EmptyObject)}

(***************************************************************************)
(* Record store (src/unnamed/part_000): the text that travels through an   *)
(* SQL statement and back.                                                 *)
(***************************************************************************)
Quote == "\""
Backslash == "\\"
Apostrophe == "'"

(* JSON.stringify of an array of strings *)
RECURSIVE JsonEscape(_)
JsonEscape(chars) ==
  IF chars = <<>> THEN <<>>
  ELSE IF Head(chars) \in {Quote, Backslash}
    THEN <<Backslash, Head(chars)>> \o JsonEscape(Tail(chars))
  ELSE <<Head(chars)>> \o JsonEscape(Tail(chars))
RECURSIVE JsonJoin(_)
JsonJoin(items) ==
  IF items = <<>> THEN <<>>
  ELSE <<Quote>> \o JsonEscape(Head(items)) \o <<Quote>>
       \o (IF Tail(items) = <<>> THEN <<>> ELSE <<",">> \o JsonJoin(Tail(items)))
JsonStringify(items) == <<"[">> \o JsonJoin(items) \o <<"]">>

(* JSON.parse of such a text: ok is FALSE where JSON.parse throws or the   *)
(* value is no array of strings                                            *)
ParseFailure == [ok |-> FALSE, items |-> <<>>, rest |-> <<>>]
RECURSIVE JsonReadString(_, _)
JsonReadString(chars, cur) ==
  IF chars = <<>> THEN ParseFailure
  ELSE IF Head(chars) = Quote
    THEN [ok |-> TRUE, items |-> cur, rest |-> Tail(chars)]
  ELSE IF Head(chars) = Backslash
    THEN IF Len(chars) >= 2 /\ chars[2] \in {Quote, Backslash}
           THEN JsonReadString(Tail(Tail(chars)), Append(cur, chars[2]))
           ELSE ParseFailure
  ELSE JsonReadString(Tail(chars), Append(cur, Head(chars)))
(* (CHOOSE v \in {F(x) : x \in {e}} : TRUE is F(e), with e evaluated once) *)
RECURSIVE JsonReadItems(_, _)
JsonReadItems(chars, acc) ==
  IF chars = <<>> \/ Head(chars) # Quote THEN ParseFailure
  ELSE CHOOSE result \in
         {IF ~str.ok \/ str.rest = <<>> THEN ParseFailure
          ELSE IF str.rest = <<"]">>
            THEN [ok |-> TRUE, items |-> Append(acc, str.items), rest |-> <<>>]
          ELSE IF Head(str.rest) = ","
            THEN JsonReadItems(Tail(str.rest), Append(acc, str.items))
          ELSE ParseFailure
          : str \in {JsonReadString(Tail(chars), <<>>)}} : TRUE
JsonParse(text) ==
  IF text = <<"[", "]">> THEN [ok |-> TRUE, items |-> <<>>, rest |-> <<>>]
  ELSE IF text # <<>> /\ Head(text) = "[" THEN JsonReadItems(Tail(text), <<>>)
  ELSE ParseFailure

parseStoredContributions(value) ==
  IF value = <<>> THEN <<>>
  ELSE CHOOSE items \in
         {IF parsed.ok THEN parsed.items ELSE <<>> : parsed \in {JsonParse(value)}} :
         TRUE

(* value.replace(/'/g, "''") *)
RECURSIVE escapeSqlString(_)
escapeSqlString(value) ==
  IF value = <<>> THEN <<>>
  ELSE IF Head(value) = Apostrophe
    THEN <<Apostrophe, Apostrophe>> \o escapeSqlString(Tail(value))
  ELSE <<Head(value)>> \o escapeSqlString(Tail(value))
toSqlString(value) == <<Apostrophe>> \o escapeSqlString(value) \o <<Apostrophe>>

(* the TEXT value sqlite3 stores for a string literal: the characters      *)
(* between the outer apostrophes, each doubled apostrophe being one        *)
RECURSIVE SqlUnescape(_)
SqlUnescape(chars) ==
  IF chars = <<>> THEN <<>>
  ELSE IF Head(chars) = Apostrophe /\ Len(chars) >= 2 /\ chars[2] = Apostrophe
    THEN <<Apostrophe>> \o SqlUnescape(Tail(Tail(chars)))
  ELSE <<Head(chars)>> \o SqlUnescape(Tail(chars))
SqlText(literal) == SqlUnescape(SubSeq(literal, 2, Len(literal) - 1))
SqlId(id) == <<id[1], SqlText(toSqlString(<<id[2]>>))[1]>>

(* A row of table rsvps; a NULL column is <<>>, a value v is <<v>> *)
InsertedRow(newEntry) ==
  [id |-> SqlId(newEntry.id),
   guestName |-> SqlText(toSqlString(newEntry.guestName)),
   guestCount |-> newEntry.guestCount,
   notes |-> <<SqlText(toSqlString(newEntry.notes))>>,
   contributions |-> SqlText(toSqlString(JsonStringify(newEntry.contributions))),
   createdAt |-> newEntry.createdAt,
   updatedAt |-> <<>>]

UpdatedRow(row, updatedEntry) ==
  [row EXCEPT
     !.guestName = SqlText(toSqlString(updatedEntry.guestName)),
     !.guestCount = updatedEntry.guestCount,
     !.notes = <<SqlText(toSqlString(updatedEntry.notes))>>,
     !.contributions =
        SqlText(toSqlString(JsonStringify(updatedEntry.contributions))),
     !.updatedAt = updatedEntry.updatedAt]

mapRowToEntry(row) ==
  [id |-> row.id,
   guestName |-> row.guestName,
   guestCount |-> row.guestCount,
   notes |-> IF row.notes = <<>> THEN <<>> ELSE row.notes[1],
   contributions |-> parseStoredContributions(row.contributions),
   createdAt |-> row.createdAt,
   updatedAt |-> IF row.updatedAt # <<>> /\ row.updatedAt[1] # 0
                   THEN row.updatedAt ELSE <<>>]

(* ORDER BY createdAt ASC: rows of equal createdAt keep their rowid order. *)
(* Rank is the place of row i in the result.                               *)
Rank(rows, i) ==
  Cardinality({j \in 1..Len(rows) :
                 \/ rows[j].createdAt < rows[i].createdAt
                 \/ rows[j].createdAt = rows[i].createdAt /\ j <= i})
OrderByCreatedAt(rows) ==
  [k \in 1..Len(rows) |-> rows[CHOOSE i \in 1..Len(rows) : Rank(rows, i) = k]]

(* SELECT ... FROM rsvps ORDER BY createdAt ASC, then rows.map(mapRowToEntry) *)
SelectAll(rows) ==
  CHOOSE entries \in
    {[i \in 1..Len(ordered) |-> mapRowToEntry(ordered[i])] :
       ordered \in {OrderByCreatedAt(rows)}} : TRUE

(* DELETE FROM rsvps WHERE id = ... *)
RECURSIVE DeleteWhereId(_, _)
DeleteWhereId(rows, id) ==
  IF rows = <<>> THEN <<>>
  ELSE IF Head(rows).id = id THEN DeleteWhereId(Tail(rows), id)
  ELSE <<Head(rows)>> \o DeleteWhereId(Tail(rows), id)

(***************************************************************************)
(* State.                                                                  *)
(*   strategy  which server is deployed: "file" or "db"                    *)
(*   initial   the collection the server started on                        *)
(*   file      data/rsvps.json: kind "json" holds the array entries;       *)
(*             "empty" is the file just opened with flag 'w' (truncated);  *)
(*             "garbage" is text JSON.parse rejects                        *)
(*   table     the rows of table rsvps, in rowid order                     *)
(*   now       Date.now()                                                  *)
(*   reqs      the bag of handlers in flight: where each stands (pc), and  *)
(*             its locals                                                  *)
(*   last      the response being sent, with its request; NoResponse       *)
(*             between responses                                           *)
(*   arrivals  requests received so far                                    *)
(*   faults    storage faults injected so far                              *)
(*   created   the records returned by the creates answered 201 (history)  *)
(*   removed   ids whose removal was acknowledged and that no later        *)
(*             create has produced again (history)                         *)
(*   updated   ids of the records a replace answered 200 has written, in   *)
(*             this run or an earlier one (history)                        *)
(***************************************************************************)
VARIABLES strategy, initial, file, table, now, reqs, last, arrivals, faults,
          created, removed, updated

vars ==
  <<strategy, initial, file, table, now, reqs, last, arrivals, faults, created,
    removed, updated>>

Methods == {"GET", "POST", "PUT", "DELETE", "PATCH", "OPTIONS"}
Paths == {"collection", "item"}

MethodNotAllowed == "Method not allowed."
NotFound == "RSVP entry not found."
UnableToCreate == "Unable to create RSVP entry."
UnableToUpdate == "Unable to update RSVP entry."
UnableToDelete == "Unable to delete RSVP entry."
UnableToLoad == "Unable to load RSVP entries."

(* pathname === '/api/rsvps' and the method tests under it; the item path  *)
(* and the method tests under it                                           *)
Route(method, path) ==
  IF path = "collection"
    THEN IF method = "GET" THEN "list"
         ELSE IF method = "POST" THEN "create"
         ELSE "405"
    ELSE IF method = "PUT" THEN "replace"
         ELSE IF method = "DELETE" THEN "remove"
         ELSE "405"

(* a handler: its request, its place (pc) and its locals *)
Arrived(method, path, id, body) ==
  [pc |-> "arrived", method |-> method, path |-> path, id |-> id, body |-> body,
   sanitized |-> SanitizeError(NoError), raw |-> "", entries |-> <<>>,
   toWrite |-> <<>>, resp |-> NoEntry]

(* sendJson(res, statusCode, data): the response, with the request it      *)
(* answers and what the handler's read of the storage produced (raw)       *)
sendJson(q, status, resp, message, list) ==
  [method |-> q.method, path |-> q.path, id |-> q.id, body |-> q.body,
   raw |-> q.raw, status |-> status, resp |-> resp, message |-> message,
   list |-> list]

NoResponse == sendJson(Arrived("", "", UnknownId, NoBody), 0, NoEntry, "", <<>>)

CatchMessage(method) ==
  IF method = "POST" THEN UnableToCreate
  ELSE IF method = "PUT" THEN UnableToUpdate
  ELSE UnableToDelete

SuccessStatus(method) ==
  IF method = "POST" THEN 201 ELSE IF method = "PUT" THEN 200 ELSE 204

(* the records a server may start on: written by earlier runs *)
Old1 == NewEntry(sanitizePayload(BodyAna.obj), 1, "a")
Old2 ==
  UpdatedEntry(NewEntry(sanitizePayload(BodyBob.obj), 1, "b"),
               sanitizePayload(BodyBob.obj), 1)
InitialCollections == {<<>>, <<Old1, Old2>>}
RowOf(entry) == [InsertedRow(entry) EXCEPT !.updatedAt = entry.updatedAt]

InFlight == BagToSet(reqs)

(* as if the statements of a handler were awaited: the event loop free     *)
(* between them                                                            *)
NeverRunning(handlers) == FALSE
(* a handler is inside a synchronous stretch of several storage calls      *)
(* (spawnSync, no await between them): the event loop runs nothing else    *)
(* until the stretch ends                                                  *)
Running(handlers) == \E q \in handlers : q.pc = "update"

(* a request arrives, its handler starts: requests are bounded, a response *)
(* is taken off the wire (Close) before the next step, and no handler is   *)
(* running                                                                 *)
Arrival ==
  /\ last = NoResponse
  /\ ~Running(InFlight)
  /\ arrivals < MaxReq
  /\ arrivals' = arrivals + 1

(* the ids a client can name: those of the records it was shown *)
Targets == IdsOf(initial) \cup IdsOf(created) \cup {UnknownId}
FaultChoices == IF faults < MaxFaults THEN {FALSE, TRUE} ELSE {FALSE}
Count(fault) == IF fault THEN faults + 1 ELSE faults

Init ==
  /\ strategy \in {"file", "db"}
  /\ initial \in InitialCollections
  /\ file = [kind |-> "json", entries |-> initial]
  /\ table = [i \in 1..Len(initial) |-> RowOf(initial[i])]
  /\ now = 2
  /\ reqs = EmptyBag
  /\ last = NoResponse
  /\ arrivals = 0
  /\ faults = 0
  /\ created = <<>>
  /\ removed = {}
  /\ updated = {initial[i].id : i \in {k \in 1..Len(initial) : initial[k].updatedAt # <<>>}}

(* the clock advances *)
Tick ==
  /\ last = NoResponse
  /\ now < MaxTime
  /\ now' = now + 1
  /\ UNCHANGED <<strategy, initial, file, table, reqs, last, arrivals, faults,
                 created, removed, updated>>

(* res.end(): the response has left; last keeps a response only in the     *)
(* state it is sent in                                                     *)
Close ==
  /\ last # NoResponse
  /\ last' = NoResponse
  /\ UNCHANGED <<strategy, initial, file, table, now, reqs, arrivals, faults,
                 created, removed, updated>>

(* handler q, just arrived (pc "arrived") or in flight, answers and ends *)
Answer(q, response) ==
  /\ reqs' = IF q.pc = "arrived" THEN reqs ELSE reqs (-) SetToBag({q})
  /\ last' = response

(* handler q returns without having answered *)
ContinueDropped(q, q2) ==
  /\ reqs' = IF q.pc = "arrived" THEN reqs ELSE reqs (-) SetToBag({q})
  /\ last' = last

(* handler q goes on as q2 *)
Continue(q, q2) ==
  /\ reqs' = IF q.pc = "arrived" THEN reqs (+) SetToBag({q2})
             ELSE (reqs (-) SetToBag({q})) (+) SetToBag({q2})
  /\ last' = last

(* handler q in flight stands at pc *)
At(q, pc) == last = NoResponse /\ q.pc = pc

(***************************************************************************)
(* Snapshot-file server (src/server.js).                                   *)
(***************************************************************************)

(* readJsonFile: what fsp.readFile and JSON.parse make of the file *)
readJsonFile(content, fault) ==
  IF fault THEN [raw |-> "error", entries |-> <<>>]
  ELSE IF content.kind = "json" THEN [raw |-> "json", entries |-> content.entries]
  ELSE [raw |-> content.kind, entries |-> <<>>]

(* the file after the data of writeJsonFile(entries) lands on content;     *)
(* on a file another writer has filled since this writer truncated it the  *)
(* bytes overlay, and a longer older text leaves a tail (clobbered)        *)
writeJsonFile(content, entries, clobbered) ==
  IF content.kind = "empty" \/ ~clobbered
       \/ (content.kind = "json" /\ content.entries = entries)
    THEN [kind |-> "json", entries |-> entries]
    ELSE [kind |-> "garbage", entries |-> <<>>]

(* any other method on either path: 405 *)
FileOther ==
  /\ strategy = "file"
  /\ Arrival
  /\ \E method \in Methods, path \in Paths :
       /\ Route(method, path) = "405"
       /\ \E q \in {Arrived(method, path, UnknownId, NoBody)} :
            Answer(q, sendJson(q, 405, NoEntry, MethodNotAllowed, <<>>))
  /\ UNCHANGED <<strategy, initial, file, table, now, faults, created, removed, updated>>

(* GET /api/rsvps up to the await of readJsonFile *)
FileGet ==
  /\ strategy = "file"
  /\ Arrival
  /\ \E q \in {Arrived("GET", "collection", UnknownId, NoBody)} :
       Continue(q, [q EXCEPT !.pc = "read"])
  /\ UNCHANGED <<strategy, initial, file, table, now, faults, created, removed, updated>>

(* POST and PUT from the received body to the validated fields: the        *)
(* handler goes on as q (next "read") or answers with response             *)
Submitted(q) ==
  CHOOSE outcome \in
    {IF parsed.threw
       THEN [next |-> "answer", q |-> q,
             response |-> sendJson(q, 500, NoEntry, CatchMessage(q.method), <<>>)]
     ELSE IF parsed.sanitized.error # NoError
       THEN [next |-> "answer", q |-> q,
             response |-> sendJson(q, 400, NoEntry, parsed.sanitized.error, <<>>)]
     ELSE [next |-> "read",
           q |-> [q EXCEPT !.pc = "read", !.sanitized = parsed.sanitized],
           response |-> NoResponse]
     : parsed \in {[threw |-> ParseBody(q.body).threw,
                    sanitized |-> sanitizePayload(ParseBody(q.body).payload)]}} :
    TRUE

Submit(q) ==
  \E outcome \in {Submitted(q)} :
    IF outcome.next = "answer" THEN Answer(q, outcome.response)
    ELSE Continue(q, outcome.q)

FilePost ==
  /\ strategy = "file"
  /\ Arrival
  /\ \E body \in Bodies :
       \E q \in {Arrived("POST", "collection", UnknownId, body)} : Submit(q)
  /\ UNCHANGED <<strategy, initial, file, table, now, faults, created, removed, updated>>

FilePut ==
  /\ strategy = "file"
  /\ Arrival
  /\ \E id \in Targets, body \in Bodies :
       \E q \in {Arrived("PUT", "item", id, body)} : Submit(q)
  /\ UNCHANGED <<strategy, initial, file, table, now, faults, created, removed, updated>>

(* DELETE /api/rsvps/{id} up to the await of readJsonFile *)
FileDelete ==
  /\ strategy = "file"
  /\ Arrival
  /\ \E id \in Targets :
       \E q \in {Arrived("DELETE", "item", id, NoBody)} :
         Continue(q, [q EXCEPT !.pc = "read"])
  /\ UNCHANGED <<strategy, initial, file, table, now, faults, created, removed, updated>>

(* fsp.readFile and JSON.parse inside readJsonFile *)
FileRead(q) ==
  /\ strategy = "file"
  /\ At(q, "read")
  /\ \E fault \in FaultChoices :
       /\ \E got \in {readJsonFile(file, fault)} :
            Continue(q, [q EXCEPT !.pc = "resume", !.raw = got.raw,
                                  !.entries = got.entries])
       /\ faults' = Count(fault)
  /\ UNCHANGED <<strategy, initial, file, table, now, arrivals, created, removed, updated>>

(* GET: the handler from the resolution of readJsonFile to its response *)
FileListed(q) ==
  /\ strategy = "file"
  /\ At(q, "resume")
  /\ q.method = "GET"
  /\ Answer(q, sendJson(q, 200, NoEntry, "", q.entries))
  /\ UNCHANGED <<strategy, initial, file, table, now, arrivals, faults, created,
                 removed, updated>>

(* POST: from the resolution of readJsonFile to the await of writeJsonFile *)
FileCreate(q) ==
  /\ strategy = "file"
  /\ At(q, "resume")
  /\ q.method = "POST"
  /\ \E suffix \in Rands :
       \E newEntry \in {NewEntry(q.sanitized, now, suffix)} :
         Continue(q, [q EXCEPT !.pc = "open", !.resp = newEntry,
                               !.toWrite = PushEntry(q.entries, newEntry)])
  /\ UNCHANGED <<strategy, initial, file, table, now, arrivals, faults, created,
                 removed, updated>>

(* PUT: from the resolution of readJsonFile to the await of writeJsonFile, *)
(* or to 404                                                               *)
FileReplace(q) ==
  /\ strategy = "file"
  /\ At(q, "resume")
  /\ q.method = "PUT"
  /\ \E index \in {FindIndex(q.entries, q.id)} :
       IF index = 0
         THEN Answer(q, sendJson(q, 404, NoEntry, NotFound, <<>>))
         ELSE \E updatedEntry \in {UpdatedEntry(q.entries[index], q.sanitized, now)} :
                Continue(q, [q EXCEPT !.pc = "open", !.resp = updatedEntry,
                                      !.toWrite =
                                         ReplaceAt(q.entries, index, updatedEntry)])
  /\ UNCHANGED <<strategy, initial, file, table, now, arrivals, faults, created,
                 removed, updated>>

(* DELETE: from the resolution of readJsonFile to the await of             *)
(* writeJsonFile, or to 404                                                *)
FileRemove(q) ==
  /\ strategy = "file"
  /\ At(q, "resume")
  /\ q.method = "DELETE"
  /\ \E filtered \in {FilterOut(q.entries, q.id)} :
       IF Len(filtered) = Len(q.entries)
         THEN Answer(q, sendJson(q, 404, NoEntry, NotFound, <<>>))
         ELSE Continue(q, [q EXCEPT !.pc = "open", !.toWrite = filtered])
  /\ UNCHANGED <<strategy, initial, file, table, now, arrivals, faults, created,
                 removed, updated>>

(* fsp.writeFile opens the file with flag 'w': the file is truncated *)
FileOpen(q) ==
  /\ strategy = "file"
  /\ At(q, "open")
  /\ \E fault \in FaultChoices :
       /\ faults' = Count(fault)
       /\ IF fault
            THEN /\ Answer(q, sendJson(q, 500, NoEntry, CatchMessage(q.method), <<>>))
                 /\ file' = file
            ELSE /\ Continue(q, [q EXCEPT !.pc = "write"])
                 /\ file' = [kind |-> "empty", entries |-> <<>>]
  /\ UNCHANGED <<strategy, initial, table, now, arrivals, created, removed, updated>>

(* fsp.writeFile writes the payload; the handler then answers *)
FileWrite(q) ==
  /\ strategy = "file"
  /\ At(q, "write")
  /\ \E fault \in FaultChoices, clobbered \in BOOLEAN :
       /\ faults' = Count(fault)
       /\ IF fault
            THEN /\ ~clobbered
                 /\ Answer(q, sendJson(q, 500, NoEntry, CatchMessage(q.method), <<>>))
                 /\ UNCHANGED <<file, created, removed, updated>>
            ELSE /\ Answer(q, sendJson(q, SuccessStatus(q.method),
                                       IF q.method = "DELETE" THEN NoEntry ELSE q.resp,
                                       "", <<>>))
                 /\ file' = writeJsonFile(file, q.toWrite, clobbered)
                 /\ created' = IF q.method = "POST" THEN Append(created, q.resp)
                               ELSE created
                 /\ removed' = IF q.method = "DELETE" THEN removed \cup {q.id}
                               ELSE IF q.method = "POST" THEN removed \ {q.resp.id}
                               ELSE removed
                 /\ updated' = IF q.method = "PUT" THEN updated \cup {q.id}
                               ELSE updated
  /\ UNCHANGED <<strategy, initial, table, now, arrivals>>

(***************************************************************************)
(* Record-store server (src/unnamed/part_000).  Every statement is a       *)
(* spawnSync of sqlite3 and no await stands between the received body and  *)
(* the response.  A handler of one statement is one step; the replace, of  *)
(* two, is two steps (DbPut, DbUpdate) with the event loop held between    *)
(* them (Running).                                                         *)
(***************************************************************************)

RowIds(rows) == {rows[i].id : i \in 1..Len(rows)}

(* queryOne(SELECT ... WHERE id = ...): the row's index, 0 for undefined *)
queryOne(rows, id) ==
  IF \E i \in 1..Len(rows) : rows[i].id = SqlId(id)
    THEN CHOOSE i \in 1..Len(rows) : rows[i].id = SqlId(id)
    ELSE 0

(* UPDATE rsvps SET ... WHERE id = ... *)
UpdateWhereId(rows, id, updatedEntry) ==
  [i \in 1..Len(rows) |->
     IF rows[i].id = SqlId(id) THEN UpdatedRow(rows[i], updatedEntry) ELSE rows[i]]

(* { ...sanitized, updatedAt: Date.now(), createdAt: existing.createdAt,   *)
(*   id: existing.id }                                                     *)
DbUpdatedEntry(existing, sanitized, timestamp) ==
  [id |-> existing.id, guestName |-> sanitized.guestName,
   guestCount |-> sanitized.guestCount, notes |-> sanitized.notes,
   contributions |-> sanitized.contributions, createdAt |-> existing.createdAt,
   updatedAt |-> <<timestamp>>]

(* OPTIONS on any api path: 204 *)
DbOptions ==
  /\ strategy = "db"
  /\ Arrival
  /\ \E path \in Paths :
       \E q \in {Arrived("OPTIONS", path, UnknownId, NoBody)} :
         Answer(q, sendJson(q, 204, NoEntry, "", <<>>))
  /\ UNCHANGED <<strategy, initial, file, table, now, faults, created, removed, updated>>

(* any other method on either path: 405 *)
DbOther ==
  /\ strategy = "db"
  /\ Arrival
  /\ \E method \in Methods \ {"OPTIONS"}, path \in Paths :
       /\ Route(method, path) = "405"
       /\ \E q \in {Arrived(method, path, UnknownId, NoBody)} :
            Answer(q, sendJson(q, 405, NoEntry, MethodNotAllowed, <<>>))
  /\ UNCHANGED <<strategy, initial, file, table, now, faults, created, removed, updated>>

(* GET /api/rsvps: queryAll throws, or the rows are mapped and sent *)
DbListed(q, rows, fault) ==
  IF fault
    THEN sendJson([q EXCEPT !.raw = "error"], 500, NoEntry, UnableToLoad, <<>>)
    ELSE sendJson([q EXCEPT !.raw = "rows"], 200, NoEntry, "", SelectAll(rows))

DbGet ==
  /\ strategy = "db"
  /\ Arrival
  /\ \E fault \in FaultChoices :
       /\ \E q \in {Arrived("GET", "collection", UnknownId, NoBody)} :
            Answer(q, DbListed(q, table, fault))
       /\ faults' = Count(fault)
  /\ UNCHANGED <<strategy, initial, file, table, now, created, removed, updated>>

(* POST /api/rsvps: the INSERT fails on a fault and on an id the table     *)
(* holds (PRIMARY KEY)                                                     *)
InsertFails(rows, newEntry, fault) == fault \/ SqlId(newEntry.id) \in RowIds(rows)

DbPost ==
  /\ strategy = "db"
  /\ Arrival
  /\ \E body \in Bodies, fault \in FaultChoices, suffix \in Rands :
       \E q \in {Arrived("POST", "collection", UnknownId, body)} :
         \E outcome \in {Submitted(q)} :
           IF outcome.next = "answer"
             THEN /\ ~fault
                  /\ Answer(q, outcome.response)
                  /\ UNCHANGED <<table, faults, created, removed, updated>>
             ELSE \E newEntry \in {NewEntry(outcome.q.sanitized, now, suffix)} :
                    /\ faults' = Count(fault)
                    /\ IF InsertFails(table, newEntry, fault)
                         THEN /\ Answer(q, sendJson(outcome.q, 500, NoEntry,
                                                    UnableToCreate, <<>>))
                              /\ UNCHANGED <<table, created, removed, updated>>
                         ELSE /\ Answer(q, sendJson(outcome.q, 201, newEntry, "", <<>>))
                              /\ table' = Append(table, InsertedRow(newEntry))
                              /\ created' = Append(created, newEntry)
                              /\ removed' = removed \ {newEntry.id}
                              /\ updated' = updated
  /\ UNCHANGED <<strategy, initial, file, now>>

(* PUT /api/rsvps/{id} from the received body through the SELECT of the    *)
(* row: 400, 500, 404, or on to the UPDATE with the row found              *)
DbPut ==
  /\ strategy = "db"
  /\ Arrival
  /\ \E id \in Targets, body \in Bodies, fault \in FaultChoices :
       \E q \in {Arrived("PUT", "item", id, body)} :
         \E outcome \in {Submitted(q)}, index \in {queryOne(table, id)} :
           IF outcome.next = "answer"
             THEN /\ ~fault
                  /\ Answer(q, outcome.response)
                  /\ faults' = faults
             ELSE /\ faults' = Count(fault)
                  /\ IF fault
                       THEN Answer(q, sendJson(outcome.q, 500, NoEntry,
                                               UnableToUpdate, <<>>))
                     ELSE IF index = 0
                       THEN Answer(q, sendJson(outcome.q, 404, NoEntry, NotFound, <<>>))
                     ELSE Continue(q, [outcome.q EXCEPT
                                         !.pc = "update",
                                         !.resp = [NoEntry EXCEPT
                                                     !.id = table[index].id,
                                                     !.createdAt =
                                                        table[index].createdAt]])
  /\ UNCHANGED <<strategy, initial, file, table, now, created, removed, updated>>

(* PUT /api/rsvps/{id} from Date.now() through the UPDATE to the response; *)
(* q.resp holds the id and createdAt of the row the SELECT found           *)
DbUpdate(q) ==
  /\ strategy = "db"
  /\ At(q, "update")
  /\ \E fault \in FaultChoices :
       /\ faults' = Count(fault)
       /\ IF fault
            THEN /\ Answer(q, sendJson(q, 500, NoEntry, UnableToUpdate, <<>>))
                 /\ UNCHANGED <<table, updated>>
            ELSE \E updatedEntry \in {DbUpdatedEntry(q.resp, q.sanitized, now)} :
                   /\ Answer(q, sendJson(q, 200, updatedEntry, "", <<>>))
                   /\ table' = UpdateWhereId(table, q.id, updatedEntry)
                   /\ updated' = IF SqlId(q.id) \in RowIds(table)
                                   THEN updated \cup {q.id} ELSE updated
  /\ UNCHANGED <<strategy, initial, file, now, arrivals, created, removed>>

(* DELETE /api/rsvps/{id}: DELETE ...; SELECT changes() *)
DbDelete ==
  /\ strategy = "db"
  /\ Arrival
  /\ \E id \in Targets, fault \in FaultChoices :
       \E q \in {Arrived("DELETE", "item", id, NoBody)},
          remaining \in {DeleteWhereId(table, SqlId(id))} :
         /\ faults' = Count(fault)
         /\ IF fault
              THEN /\ Answer(q, sendJson(q, 500, NoEntry, UnableToDelete, <<>>))
                   /\ UNCHANGED <<table, removed, updated>>
            ELSE IF Len(table) - Len(remaining) = 0
              THEN /\ Answer(q, sendJson(q, 404, NoEntry, NotFound, <<>>))
                   /\ UNCHANGED <<table, removed, updated>>
            ELSE /\ Answer(q, sendJson(q, 204, NoEntry, "", <<>>))
                 /\ table' = remaining
                 /\ removed' = removed \cup {id}
                 /\ updated' = updated
  /\ UNCHANGED <<strategy, initial, file, now, created>>

Next ==
  \/ Tick
  \/ Close
  \/ FileOther
  \/ FileGet
  \/ FilePost
  \/ FilePut
  \/ FileDelete
  \/ \E q \in InFlight : FileRead(q)
  \/ \E q \in InFlight : FileListed(q)
  \/ \E q \in InFlight : FileCreate(q)
  \/ \E q \in InFlight : FileReplace(q)
  \/ \E q \in InFlight : FileRemove(q)
  \/ \E q \in InFlight : FileOpen(q)
  \/ \E q \in InFlight : FileWrite(q)
  \/ DbOptions
  \/ DbOther
  \/ DbGet
  \/ DbPost
  \/ DbPut
  \/ \E q \in InFlight : DbUpdate(q)
  \/ DbDelete

Spec == Init /\ [][Next]_vars

(* every storage read and write completes or fails, and the event loop     *)
(* resumes each handler whose awaited operation is over                    *)
Fairness ==
  /\ WF_vars(Close)
  /\ WF_vars(\E q \in InFlight : FileRead(q))
  /\ WF_vars(\E q \in InFlight : FileListed(q))
  /\ WF_vars(\E q \in InFlight : FileCreate(q))
  /\ WF_vars(\E q \in InFlight : FileReplace(q))
  /\ WF_vars(\E q \in InFlight : FileRemove(q))
  /\ WF_vars(\E q \in InFlight : FileOpen(q))
  /\ WF_vars(\E q \in InFlight : FileWrite(q))
  /\ WF_vars(\E q \in InFlight : DbUpdate(q))

LiveSpec == Spec /\ Fairness

(***************************************************************************)
(* Properties.                                                             *)
(***************************************************************************)

(* what a list of the collection returns from the storage as it stands *)
Listed ==
  IF strategy = "file"
    THEN IF file.kind = "json" THEN file.entries ELSE <<>>
    ELSE SelectAll(table)

Mutations == {"POST", "PUT", "DELETE"}
Quiescent == reqs = EmptyBag /\ last = NoResponse
Ordered(entries) ==
  \A i, j \in 1..Len(entries) :
    i < j => entries[i].createdAt <= entries[j].createdAt
(* the fields validation makes of a body *)
Validated(body) == sanitizePayload(ParseBody(body).payload)
(* a response is sent in this step *)
Responds == last = NoResponse /\ last' # NoResponse
(* handler q takes this step *)
Acts(q) == CopiesIn(q, reqs') < CopiesIn(q, reqs)

(* C1: snapshot file: when every request received was a create answered    *)
(* 201 and no storage fault occurred, then once all handlers have ended    *)
(* the file holds every returned record and has grown by exactly the       *)
(* number of creates.                                                      *)
C1_NoCreateLost ==
  (/\ strategy = "file"
   /\ Quiescent
   /\ faults = 0
   /\ arrivals > 0
   /\ Len(created) = arrivals)
  => /\ file.kind = "json"
     /\ Len(file.entries) = Len(initial) + Len(created)
     /\ \A i \in 1..Len(created) :
          \E k \in 1..Len(file.entries) : file.entries[k] = created[i]

(* C2: snapshot file: from a mutation's readJsonFile to its writeJsonFile  *)
(* no other mutation writes: the file still holds what the mutation read.  *)
C2_MutationsSerialized ==
  \A q \in InFlight :
    (q.method \in Mutations /\ q.pc \in {"resume", "open"} /\ q.raw = "json")
    => file = [kind |-> "json", entries |-> q.entries]

(* C3: snapshot file: no read of the file, by a list or by a mutation,     *)
(* finds it truncated or half written.                                     *)
C3_ReadsSeeCommitted ==
  strategy = "file"
  => \A q \in InFlight : q.raw \notin {"empty", "garbage"}

(* C4: in every reachable state the list of the collection, and every list *)
(* a GET returns, is in non-decreasing createdAt order.                    *)
C4_ListOrdered ==
  /\ Ordered(Listed)
  /\ (last.method = "GET" /\ last.status = 200) => Ordered(last.list)

(* C4 happens: a GET lists the two records the server started on and one   *)
(* created later                                                           *)
C4_Witness ==
  /\ last.method = "GET"
  /\ last.status = 200
  /\ Len(last.list) = 3
  /\ last.list[1].createdAt < last.list[3].createdAt
  /\ last.list[3] \in {created[i] : i \in 1..Len(created)}

(* C5: in every reachable state of either strategy no two records of the   *)
(* collection share an id.                                                 *)
C5_IdsUnique ==
  \A i, j \in 1..Len(Listed) : i # j => Listed[i].id # Listed[j].id

(* after is before with the record of this id, and no other, replaced:     *)
(* same id and createdAt, updatedAt >= createdAt, the validated fields     *)
ReplacedOnly(before, after, id, validated) ==
  /\ Len(after) = Len(before)
  /\ \A i \in 1..Len(before) :
       IF before[i].id = id
         THEN /\ after[i].id = id
              /\ after[i].createdAt = before[i].createdAt
              /\ after[i].updatedAt # <<>>
              /\ after[i].updatedAt[1] >= after[i].createdAt
              /\ after[i].guestName = validated.guestName
              /\ after[i].guestCount = validated.guestCount
              /\ after[i].notes = validated.notes
              /\ after[i].contributions = validated.contributions
         ELSE after[i] = before[i]

(* the writeFile call of a replace starts: the file's content goes and     *)
(* q.toWrite takes its place                                               *)
FilePutPersists(q) ==
  /\ strategy = "file"
  /\ q.method = "PUT"
  /\ q.pc = "open"
  /\ Acts(q)
  /\ file.kind = "json"
  /\ file'.kind = "empty"

(* the UPDATE of a replace is done *)
DbPutPersists ==
  /\ strategy = "db"
  /\ Responds
  /\ last'.method = "PUT"
  /\ last'.status = 200

(* C6: a replace of an existing id with a valid payload puts, in place of  *)
(* the collection, one that differs from it only in that record: id and    *)
(* createdAt kept, updatedAt >= createdAt, the four fields the validated   *)
(* ones, every other record and every position as before.                  *)
C6_ReplaceFrame ==
  [][/\ \A q \in InFlight :
          FilePutPersists(q)
          => ReplacedOnly(file.entries, q.toWrite, q.id, Validated(q.body))
     /\ DbPutPersists
        => ReplacedOnly(SelectAll(table), SelectAll(table'), last'.id,
                        Validated(last'.body))]_vars

(* a replace with a valid payload has found its id absent from the         *)
(* collection it read, and goes on                                         *)
FilePutUnknown(q) ==
  /\ strategy = "file"
  /\ q.method = "PUT"
  /\ q.pc = "resume"
  /\ q.id \notin IdsOf(q.entries)
  /\ Acts(q)

DbPutUnknown ==
  /\ strategy = "db"
  /\ Responds
  /\ last'.method = "PUT"
  /\ ~ParseBody(last'.body).threw
  /\ Validated(last'.body).error = NoError
  /\ last'.id \notin IdsOf(SelectAll(table))
  /\ faults' = faults

PutNotFound ==
  /\ last'.method = "PUT"
  /\ last'.status = 404
  /\ last'.message = NotFound
  /\ file' = file
  /\ table' = table

(* C7: a replace with a valid payload whose id is not in the collection    *)
(* it reads is answered 404 "RSVP entry not found." in the step that finds *)
(* the id absent, the storage is left as it was, and the handler never     *)
(* comes to its write (a statement the record store fails is answered 500  *)
(* by the catch instead).                                                  *)
C7_ReplaceUnknownIsNotFound ==
  /\ [](\A q \in InFlight :
          (q.method = "PUT" /\ q.pc \in {"open", "write"})
          => q.id \in IdsOf(q.entries))
  /\ [][/\ \A q \in InFlight :
             FilePutUnknown(q) => (PutNotFound /\ last'.id = q.id)
        /\ DbPutUnknown => PutNotFound]_vars

(* C7 happens: a replace of an id unknown to a collection of two records,  *)
(* with a valid payload, is answered 404                                   *)
C7_Witness ==
  /\ last.method = "PUT"
  /\ last.id = UnknownId
  /\ last.body = BodyBob
  /\ last.status = 404
  /\ Len(Listed) = 2

(* C8: once a remove of an id is answered 204, no list contains that id    *)
(* (until a create produces the id again).                                 *)
C8_RemovedStaysRemoved == \A id \in removed : id \notin IdsOf(Listed)

(* the message validation owes each body: the name rule comes first *)
ExpectedRejection(body) ==
  IF body \in {BodyNoName, BodyNeither} THEN NameRequired
  ELSE IF body = BodyNoContribution THEN ContributionRequired
  ELSE NoError

(* C9: a create or replace whose payload fails validation is answered 400  *)
(* with the message of the first rule it violates, guest name before       *)
(* contributions, and nothing else: the storage is as before, no handler   *)
(* stays in flight for it; and no other request is answered 400.           *)
C9_FirstViolatedRule ==
  [][Responds =>
       /\ (last'.method \in {"POST", "PUT"}
             /\ ExpectedRejection(last'.body) # NoError)
          => /\ last'.status = 400
             /\ last'.message = ExpectedRejection(last'.body)
             /\ last'.resp = NoEntry
             /\ file' = file
             /\ table' = table
             /\ reqs' = reqs
       /\ last'.status = 400
          => /\ last'.method \in {"POST", "PUT"}
             /\ ExpectedRejection(last'.body) # NoError]_vars

(* C9 happens: a payload with neither a guest name nor a contribution is   *)
(* answered 400 on a collection that holds records                         *)
C9_Witness ==
  /\ last.status = 400
  /\ last.body = BodyNeither
  /\ last.message = NameRequired
  /\ Len(Listed) > 0

(* C10: in both strategies a list whose read of the storage fails is       *)
(* answered 200 with the empty list.                                       *)
C10_ListNeverFails ==
  (last.method = "GET" /\ last.path = "collection" /\ last.raw = "error")
  => (last.status = 200 /\ last.list = <<>>)

(* C11: a POST, PUT or DELETE during which the storage is unreadable or    *)
(* corrupt (the read of the file fails or finds text that is not JSON, a   *)
(* statement of the record store fails) is answered 500.                   *)
C11_StorageFailureIs500 ==
  /\ []((last.method \in Mutations /\ last.raw \in {"error", "garbage"})
        => last.status = 500)
  /\ [][(strategy = "db" /\ Responds /\ last'.method \in Mutations
           /\ faults' > faults)
        => last'.status = 500]_vars

(* C12: a POST or PUT whose body is malformed JSON text, or JSON that is   *)
(* not an object (null), is answered 400.                                  *)
C12_BadBodyIs400 ==
  (last.method \in {"POST", "PUT"} /\ last.body.kind \in {"malformed", "null"})
  => last.status = 400

(* the records returned by creates, of which no removal or update has been *)
(* acknowledged since                                                      *)
Untouched ==
  {created[i] : i \in {k \in 1..Len(created) :
                         created[k].id \notin removed \cup updated}}

(* C13: in every state after a create's response, and before an update or  *)
(* removal of its record, a list of the collection holds an element equal  *)
(* to the returned record field for field.                                 *)
C13_CreatedIsListed ==
  \A R \in Untouched : \E k \in 1..Len(Listed) : Listed[k] = R

(* a record with a non-empty guest name free of outer whitespace, a        *)
(* positive integer guest count and at least one contribution, none empty  *)
WellFormed(record) ==
  /\ record.guestName # <<>>
  /\ Head(record.guestName) \notin Whitespace
  /\ record.guestName[Len(record.guestName)] \notin Whitespace
  /\ record.guestCount \in Nat \ {0}
  /\ record.contributions # <<>>
  /\ \A i \in 1..Len(record.contributions) : record.contributions[i] # <<>>

(* guest counts that are absent, not numeric, zero or negative *)
NoCount ==
  {JUndef, JNull, JStr(<<>>), JStr(<<"x", "2">>), JNum(0), JNum(0 - 3),
   JStr(<<" ", "-", "2">>), JArr(<<>>)}

(* C14: in every reachable state every record the service has written (in *)
(* the collection, returned by a create or a replace) has a non-empty      *)
(* stripped guestName, a positive integer guestCount and a non-empty       *)
(* contributions sequence without an empty item; the guestCount is 1 when  *)
(* the submitted one is absent, not numeric, zero or negative, as it is    *)
(* for the answered payload with any such guestCount in its place.         *)
C14_RecordsWellFormed ==
  [](/\ \A i \in 1..Len(Listed) : WellFormed(Listed[i])
     /\ (last.method \in {"POST", "PUT"} /\ last.status \in {200, 201})
        => /\ WellFormed(last.resp)
           /\ last.body.obj.guestCount \in NoCount => last.resp.guestCount = 1
           /\ \A v \in NoCount :
                sanitizePayload([last.body.obj EXCEPT !.guestCount = v]).guestCount
                  = 1)

(* C14 happens: a replace is answered 200 with the record made from a      *)
(* payload whose guestCount is 0 and whose contributions hold a null item, *)
(* and the collection holds it                                             *)
C14_Witness ==
  /\ last.method = "PUT"
  /\ last.status = 200
  /\ last.body = BodyBob
  /\ last.id = Old1.id
  /\ \E k \in 1..Len(Listed) : Listed[k] = last.resp

(* what a client sees of a response *)
Observable(response) ==
  [status |-> response.status, resp |-> response.resp,
   message |-> response.message, list |-> response.list]

(* the snapshot-file handler run alone, from the request to its response,  *)
(* on a file that holds entries and is read and written without fault      *)
FileAnswer(method, path, id, body, entries, timestamp, suffix) ==
  LET q == Arrived(method, path, id, body)
      route == Route(method, path)
      outcome == Submitted(q)
      index == FindIndex(entries, id)
  IN IF route = "405" THEN Observable(sendJson(q, 405, NoEntry, MethodNotAllowed, <<>>))
     ELSE IF route = "list" THEN Observable(sendJson(q, 200, NoEntry, "", entries))
     ELSE IF route = "remove"
       THEN IF Len(FilterOut(entries, id)) = Len(entries)
              THEN Observable(sendJson(q, 404, NoEntry, NotFound, <<>>))
              ELSE Observable(sendJson(q, 204, NoEntry, "", <<>>))
     ELSE IF outcome.next = "answer" THEN Observable(outcome.response)
     ELSE IF route = "create"
       THEN Observable(sendJson(q, 201, NewEntry(outcome.q.sanitized, timestamp, suffix),
                                "", <<>>))
     ELSE IF index = 0 THEN Observable(sendJson(q, 404, NoEntry, NotFound, <<>>))
     ELSE Observable(sendJson(q, 200,
                              UpdatedEntry(entries[index], outcome.q.sanitized,
                                           timestamp),
                              "", <<>>))

(* C15: to every request the record-store server, its storage working,     *)
(* gives the answer (status and body) the snapshot-file server gives to    *)
(* the same request on the same collection at the same time with the same  *)
(* random suffix.                                                          *)
C15_SameAnswers ==
  [][(strategy = "db" /\ Responds /\ faults' = faults)
     => \E suffix \in Rands :
          Observable(last') =
            FileAnswer(last'.method, last'.path, last'.id, last'.body,
                       SelectAll(table), now, suffix)]_vars

(* the record-store server answers in this step *)
DbResponds == strategy = "db" /\ Responds

(* C16: record store, a replace and a remove of the same id handled by the *)
(* server process, in either order: a PUT is answered 200 only when its    *)
(* UPDATE ran on a row that was there, and the record then holds exactly   *)
(* the fields of the answer; after a DELETE answered 204 the record is     *)
(* absent; a handler that has found its row comes to its UPDATE with the   *)
(* row still there.                                                        *)
C16_PutDeleteResolve ==
  /\ [](strategy = "db"
        => \A q \in InFlight : q.pc = "update" => SqlId(q.id) \in RowIds(table))
  /\ [][/\ (DbResponds /\ last'.method = "PUT" /\ last'.status = 200)
           => /\ last'.id \in IdsOf(SelectAll(table))
              /\ \E k \in 1..Len(table') : mapRowToEntry(table'[k]) = last'.resp
              /\ \A k \in 1..Len(table') :
                   table'[k].id = SqlId(last'.id)
                   => mapRowToEntry(table'[k]) = last'.resp
        /\ (DbResponds /\ last'.method = "DELETE" /\ last'.status = 204)
           => /\ last'.id \in IdsOf(SelectAll(table))
              /\ last'.id \notin IdsOf(SelectAll(table'))]_vars

(* C16 happens: the remove came first, and the replace of the removed id   *)
(* is answered 404                                                         *)
C16_Witness ==
  /\ strategy = "db"
  /\ last.method = "PUT"
  /\ last.body = BodyBob
  /\ last.id \in removed
  /\ last.status = 404

(* C17: a record carries updatedAt only if a replace of its id was         *)
(* answered 200: no record of the collection, of a list or of a create's   *)
(* answer carries it otherwise; and the record a replace answers and       *)
(* writes carries the Date.now() of that replace.                          *)
C17_UpdatedAtOnlyAfterUpdate ==
  /\ [](/\ \A i \in 1..Len(Listed) :
             Listed[i].updatedAt # <<>> => Listed[i].id \in updated
        /\ \A i \in 1..Len(created) : created[i].updatedAt = <<>>
        /\ (last.method = "POST" /\ last.status = 201) => last.resp.updatedAt = <<>>
        /\ (last.method = "GET" /\ last.status = 200)
           => \A i \in 1..Len(last.list) :
                last.list[i].updatedAt # <<>> => last.list[i].id \in updated
        /\ (last.method = "PUT" /\ last.status = 200)
           => /\ last.resp.updatedAt # <<>>
              /\ last.resp.updatedAt[1] <= now
              /\ last.resp.updatedAt[1] >= last.resp.createdAt)
  /\ [][/\ (DbResponds /\ last'.method = "PUT" /\ last'.status = 200)
           => last'.resp.updatedAt = <<now>>
        /\ \A q \in InFlight' \ InFlight :
             (strategy = "file" /\ q.method = "PUT" /\ q.pc = "open")
             => q.resp.updatedAt = <<now>>]_vars

(* C17 happens: the collection holds a record created and never replaced,  *)
(* without updatedAt, next to one a replace has stamped in this run        *)
C17_Witness ==
  /\ \E i \in 1..Len(Listed) :
       Listed[i] \in Untouched /\ Listed[i].updatedAt = <<>>
  /\ \E i \in 1..Len(Listed) :
       Listed[i].id = Old1.id /\ Listed[i].updatedAt # <<>>

(* C18: a request whose method is none of those of its path is answered    *)
(* 405, in both servers.                                                   *)
C18_OtherMethodsAre405 ==
  (last # NoResponse /\ Route(last.method, last.path) = "405")
  => last.status = 405

(* C19: snapshot file: a create that is the only request the server has    *)
(* received and is answered 201 leaves in the file every record that was   *)
(* there, unchanged and in place, followed by the new one.                 *)
C19_CreateOnlyAppends ==
  (strategy = "file" /\ arrivals = 1 /\ last.method = "POST" /\ last.status = 201)
  => file = [kind |-> "json", entries |-> Append(initial, last.resp)]

(* C20: record store: while a handler stands between its SELECT and its    *)
(* UPDATE nothing else happens to the storage and no other handler starts  *)
(* or answers; so no acknowledged create, replace or remove is undone: a   *)
(* created record stays listed until replaced or removed, a removed id     *)
(* stays absent.                                                           *)
C20_HandlerRunsToCompletion ==
  /\ [](strategy = "db"
        => /\ BagCardinality(reqs) <= 1
           /\ \A R \in Untouched : \E k \in 1..Len(Listed) : Listed[k] = R
           /\ \A id \in removed : id \notin IdsOf(Listed))
  /\ [][\A q \in InFlight :
          (strategy = "db" /\ q.pc = "update" /\ ~Acts(q))
          => (table' = table /\ reqs' = reqs /\ last' = last
                /\ faults' = faults)]_vars

(* C20 happens: a replace of a record an earlier request created stands    *)
(* between its SELECT and its UPDATE                                       *)
C20_Witness ==
  /\ strategy = "db"
  /\ \E q \in InFlight : q.pc = "update" /\ q.id \in IdsOf(created)

(* the status codes the API sends *)
Statuses == {200, 201, 204, 400, 404, 405, 500}
(* the requests whose handler has ended *)
Ended == arrivals - BagCardinality(reqs)

(* C21: every request on the collection or on a record gets exactly one    *)
(* response, with a status among 200, 201, 204, 400, 404, 405 and 500: a   *)
(* handler ends in exactly the steps that send a response, one handler per *)
(* response, and, storage operations completing or failing, a handler in   *)
(* flight is eventually answered and no handler stays in flight for ever.  *)
C21_ExactlyOneResponse ==
  /\ [](last # NoResponse => last.status \in Statuses)
  /\ [](Ended \in 0..arrivals)
  /\ [][/\ Responds => Ended' = Ended + 1
        /\ ~Responds => Ended' = Ended]_vars
  /\ \A method \in {"GET", "POST", "PUT", "DELETE"} :
       (\E q \in InFlight : q.method = method)
         ~> (last # NoResponse /\ last.method = method)
  /\ (reqs # EmptyBag) ~> Quiescent

(* C21 happens: a create or a replace that waited for the storage is       *)
(* answered while another handler is still in flight                       *)
C21_Witness ==
  /\ last.method \in {"POST", "PUT"}
  /\ last.status \in {200, 201}
  /\ reqs # EmptyBag

=============================================================================
